---- MODULE Spec2Model ----
(***************************************************************************)
(* Model of the per-hart bring-up protocol (crates/kernel/src/hart/mod.rs)  *)
(* and of the signal syscalls (crates/kernel/src/syscall/signal.rs) of the  *)
(* asynclear kernel.                                                        *)
(*                                                                          *)
(* The specifications share the variables:                                  *)
(*   Spec     - bring-up: every hart runs __hart_entry step by step;        *)
(*   FairSpec - Spec with weak fairness of every hart's steps;              *)
(*   SigSpec  - after bring-up: the threads run the signal syscalls, each   *)
(*              call atomic and returned before the next one;               *)
(*   SeqSpec  - after bring-up: one thread calls sys_rt_sigprocmask         *)
(*              repeatedly, the previous call being remembered;            *)
(*   RetSpec  - after bring-up: the threads trap and call sys_rt_sigreturn; *)
(*   StackSpec - user stacks are allocated and freed (thread/mod.rs);       *)
(*   ThreadSpec - one thread is constructed, resumed and yields, yield_now  *)
(*              statement by statement;                                     *)
(*   LockSpec - closures of Thread::lock_inner run from several harts,      *)
(*              statement by statement;                                     *)
(*   ConcSpec - two threads run sys_rt_sigaction, one lock section at a     *)
(*              time.                                                       *)
(***************************************************************************)
EXTENDS Integers, Naturals, FiniteSets, Sequences, TLC

\* ------------------------------------------------------------------------
\* Bounds
\* ------------------------------------------------------------------------
\* number of harts of the machine (defines::config::HART_NUM)
HartNum == 3

Harts == 0 .. (HartNum - 1)

\* Option::None for Hart::thread, and the reset value of the tp register
None == -1

VARIABLES
    pc,                   \* per hart: position inside __hart_entry
    branch,               \* per hart: branch of the `if` taken after the CAS
    INIF_HART,            \* static AtomicBool, initially true   (.data)
    INIT_FINISHED,        \* static AtomicBool, initially false  (.bss)
    HARTS,                \* static mut [Hart; HART_NUM]         (.bss)
    tp,                   \* per hart: tp register, index of the slot it points at
    memory_inited,        \* memory::init() has completed
    kernel_space_active,  \* per hart: KERNEL_SPACE.activate() has been run
    sum,                  \* per hart: sstatus.SUM
    signal_handlers,      \* per process: ProcessInner::signal_handlers
    signal_mask,          \* per thread: ThreadInner::signal_mask
    last,                 \* the last syscall: caller, arguments, results
    installed,            \* per process and signal: the action last installed
    panicked,             \* the kernel has panicked
    trap_context,         \* per thread: ThreadInner::trap_context
    thread_status,        \* per thread: ThreadInner::thread_status
    exit_code,            \* per thread: ThreadInner::exit_code
    inner_lock,           \* per thread: the thread whose task holds Thread::inner, or None
    proc_exit,            \* per process: the exit code once it has exited
    memory_set,           \* the areas mapped into the user address space
    task                  \* per hart: the operation in progress and its locals

bootVars == <<pc, branch, INIF_HART, INIT_FINISHED, tp, memory_inited,
              kernel_space_active, sum>>

thrVars == <<trap_context, thread_status, exit_code, inner_lock, proc_exit,
             memory_set, task>>

sigVars == <<signal_handlers, signal_mask, last, installed, panicked,
             trap_context, thread_status, exit_code, inner_lock, proc_exit,
             memory_set, task>>

vars == <<pc, branch, INIF_HART, INIT_FINISHED, HARTS, tp, memory_inited,
          kernel_space_active, sum, signal_handlers, signal_mask, last, installed,
          panicked, trap_context, thread_status, exit_code, inner_lock, proc_exit,
          memory_set, task>>

\* ------------------------------------------------------------------------
\* hart/mod.rs
\* ------------------------------------------------------------------------

\* Hart::new()
HartNew == [hart_id |-> 0, thread |-> None]

\* AtomicBool::compare_exchange(current, new): the value stored afterwards
\* and whether the exchange succeeded.
NoCompareExchange(flag, current, new) == [ok |-> TRUE, value |-> flag]

compare_exchange(flag, current, new) ==
    IF flag = current THEN [ok |-> TRUE, value |-> new]
                      ELSE [ok |-> FALSE, value |-> flag]

\* index of the slot of HARTS that set_local_hart(hart_id) takes
SlotZero(hart_id) == 0

SlotOf(hart_id) == hart_id

\* set_local_hart: write hart_id into the slot, point tp at the slot
set_local_hart(h) ==
    /\ HARTS' = [HARTS EXCEPT ![SlotOf(h)].hart_id = h]
    /\ tp' = [tp EXCEPT ![h] = SlotOf(h)]

\* local_hart(): the slot tp points at
local_hart(h) == HARTS[tp[h]]

\* no syscall has been made yet
NoCall == [op |-> "none"]

\* no operation in progress on a hart
Idle == [op |-> "idle"]

Init ==
    /\ pc = [h \in Harts |-> "off"]
    /\ branch = [h \in Harts |-> "none"]
    /\ INIF_HART = TRUE
    /\ INIT_FINISHED = FALSE
    /\ HARTS = [i \in Harts |-> HartNew]
    /\ tp = [h \in Harts |-> None]
    /\ memory_inited = FALSE
    /\ kernel_space_active = [h \in Harts |-> FALSE]
    /\ sum = [h \in Harts |-> FALSE]
    /\ signal_handlers = << >>
    /\ signal_mask = << >>
    /\ installed = << >>
    /\ last = NoCall
    /\ panicked = FALSE
    /\ trap_context = << >>
    /\ thread_status = << >>
    /\ exit_code = << >>
    /\ inner_lock = << >>
    /\ proc_exit = << >>
    /\ memory_set = {}
    /\ task = [h \in Harts |-> Idle]

\* the hart is started and jumps to __hart_entry(hart_id)
HartEnter(h) ==
    /\ pc[h] = "off"
    /\ pc' = [pc EXCEPT ![h] = "entry"]
    /\ UNCHANGED sigVars
    /\ UNCHANGED <<branch, INIF_HART, INIT_FINISHED, HARTS, tp, memory_inited,
                   kernel_space_active, sum>>

\* INIF_HART.compare_exchange(true, false, ..).is_ok()
ElectLeader(h) ==
    /\ pc[h] = "entry"
    /\ LET r == compare_exchange(INIF_HART, TRUE, FALSE) IN
        /\ INIF_HART' = r.value
        /\ branch' = [branch EXCEPT ![h] = IF r.ok THEN "leader" ELSE "follower"]
        /\ pc' = [pc EXCEPT ![h] = IF r.ok THEN "clear_bss" ELSE "spin"]
    /\ UNCHANGED sigVars
    /\ UNCHANGED <<INIT_FINISHED, HARTS, tp, memory_inited,
                   kernel_space_active, sum>>

\* leader: zero [sbss, ebss); the zero-initialised statics live there
ClearBss(h) ==
    /\ pc[h] = "clear_bss"
    /\ INIT_FINISHED' = FALSE
    /\ HARTS' = [i \in Harts |-> HartNew]
    /\ pc' = [pc EXCEPT ![h] = "memory_init"]
    /\ UNCHANGED sigVars
    /\ UNCHANGED <<branch, INIF_HART, tp, memory_inited, kernel_space_active, sum>>

\* leader: memory::init()
MemoryInit(h) ==
    /\ pc[h] = "memory_init"
    /\ memory_inited' = TRUE
    /\ pc' = [pc EXCEPT ![h] = "activate"]
    /\ UNCHANGED sigVars
    /\ UNCHANGED <<branch, INIF_HART, INIT_FINISHED, HARTS, tp,
                   kernel_space_active, sum>>

\* leader: KERNEL_SPACE.activate()
LeaderActivate(h) ==
    /\ pc[h] = "activate"
    /\ kernel_space_active' = [kernel_space_active EXCEPT ![h] = TRUE]
    /\ pc' = [pc EXCEPT ![h] = "set_local_hart"]
    /\ UNCHANGED sigVars
    /\ UNCHANGED <<branch, INIF_HART, INIT_FINISHED, HARTS, tp, memory_inited, sum>>

\* leader: set_local_hart(hart_id)
LeaderSetLocalHart(h) ==
    /\ pc[h] = "set_local_hart"
    /\ set_local_hart(h)
    /\ pc' = [pc EXCEPT ![h] = "publish"]
    /\ UNCHANGED sigVars
    /\ UNCHANGED <<branch, INIF_HART, INIT_FINISHED, memory_inited,
                   kernel_space_active, sum>>

\* leader: INIT_FINISHED.store(true, SeqCst)
PublishNoStore(h) ==
    /\ pc[h] = "publish"
    /\ pc' = [pc EXCEPT ![h] = "set_sum"]
    /\ UNCHANGED sigVars
    /\ UNCHANGED <<branch, INIF_HART, INIT_FINISHED, HARTS, tp, memory_inited,
                   kernel_space_active, sum>>

Publish(h) ==
    /\ pc[h] = "publish"
    /\ INIT_FINISHED' = TRUE
    /\ pc' = [pc EXCEPT ![h] = "set_sum"]
    /\ UNCHANGED sigVars
    /\ UNCHANGED <<branch, INIF_HART, HARTS, tp, memory_inited,
                   kernel_space_active, sum>>

\* follower: while !INIT_FINISHED.load(SeqCst) { spin_loop() }
\* (an iteration that reads false changes nothing)
SpinNoWait(h) ==
    /\ pc[h] = "spin"
    /\ pc' = [pc EXCEPT ![h] = "f_set_local_hart"]
    /\ UNCHANGED sigVars
    /\ UNCHANGED <<branch, INIF_HART, INIT_FINISHED, HARTS, tp, memory_inited,
                   kernel_space_active, sum>>

Spin(h) ==
    /\ pc[h] = "spin"
    /\ INIT_FINISHED
    /\ pc' = [pc EXCEPT ![h] = "f_set_local_hart"]
    /\ UNCHANGED sigVars
    /\ UNCHANGED <<branch, INIF_HART, INIT_FINISHED, HARTS, tp, memory_inited,
                   kernel_space_active, sum>>

\* follower: set_local_hart(hart_id)
FollowerSetLocalHart(h) ==
    /\ pc[h] = "f_set_local_hart"
    /\ set_local_hart(h)
    /\ pc' = [pc EXCEPT ![h] = "f_activate"]
    /\ UNCHANGED sigVars
    /\ UNCHANGED <<branch, INIF_HART, INIT_FINISHED, memory_inited,
                   kernel_space_active, sum>>

\* follower: KERNEL_SPACE.activate()
FollowerActivate(h) ==
    /\ pc[h] = "f_activate"
    /\ kernel_space_active' = [kernel_space_active EXCEPT ![h] = TRUE]
    /\ pc' = [pc EXCEPT ![h] = "set_sum"]
    /\ UNCHANGED sigVars
    /\ UNCHANGED <<branch, INIF_HART, INIT_FINISHED, HARTS, tp, memory_inited, sum>>

\* sstatus::set_sum(); crate::kernel_loop()
SetSum(h) ==
    /\ pc[h] = "set_sum"
    /\ sum' = [sum EXCEPT ![h] = TRUE]
    /\ pc' = [pc EXCEPT ![h] = "kernel_loop"]
    /\ UNCHANGED sigVars
    /\ UNCHANGED <<branch, INIF_HART, INIT_FINISHED, HARTS, tp, memory_inited,
                   kernel_space_active>>

\* one step of __hart_entry on hart h
hart_entry(h) ==
    \/ ElectLeader(h)
    \/ ClearBss(h)
    \/ MemoryInit(h)
    \/ LeaderActivate(h)
    \/ LeaderSetLocalHart(h)
    \/ Publish(h)
    \/ Spin(h)
    \/ FollowerSetLocalHart(h)
    \/ FollowerActivate(h)
    \/ SetSum(h)

Next ==
    \/ \E h \in Harts : HartEnter(h)
    \/ \E h \in Harts : hart_entry(h)

Spec == Init /\ [][Next]_vars

\* bring-up under weak fairness of every hart's steps
FairSpec == Spec /\ \A h \in Harts : WF_vars(hart_entry(h))

\* ------------------------------------------------------------------------
\* Signal syscalls: bounds and inputs
\* ------------------------------------------------------------------------
\* number of threads; they all belong to process 1
NumThreads == 2

\* signal sets passed by the user are the bit patterns 0 .. MaxSet
MaxSet == 2

Threads == 1 .. NumThreads

\* Thread::process
ProcOf(t) == 1

Procs == {ProcOf(t) : t \in Threads}

\* ------------------------------------------------------------------------
\* defines::error, defines::signal, kernel::signal, user_check
\* ------------------------------------------------------------------------
EINVAL == "EINVAL"
EFAULT == "EFAULT"

\* Result: Ok(v) / Err(errno)
Ok(v) == [err |-> "", val |-> v]
Err(e) == [err |-> e, val |-> -1]

SIGINT == 2
SIGKILL == 9
SIGUSR1 == 10
SIGSTOP == 19

\* largest signal number of the Signal enum
SIGNAL_MAX == 64

\* width in bytes of KSignalSet
SIGSET_SIZE_BYTES == 8

\* SignalActionFlags::SA_RESTORER
SA_RESTORER == 67108864

\* `signum as u8`
AsU8(n) == n % 256

\* Signal::try_from(u8): the signal, or 0 for Err
SignalTryFrom(n) == IF n \in 1 .. SIGNAL_MAX THEN n ELSE 0

\* SigprocmaskHow::try_from(usize): the variant, or "" for Err
SigprocmaskHowTryFrom(how) ==
    CASE how = 0 -> "SIG_BLOCK"
      [] how = 1 -> "SIG_UNBLOCK"
      [] how = 2 -> "SIG_SETMASK"
      [] OTHER -> ""

\* SignalActionFlags::contains for a one-bit flag
contains(flags, flag) == (flags \div flag) % 2 = 1

\* KSignalSet::insert: bits |= other
RECURSIVE insert(_, _)
insert(bits, other) ==
    IF bits = 0 THEN other
    ELSE IF other = 0 THEN bits
    ELSE (IF bits % 2 = 1 \/ other % 2 = 1 THEN 1 ELSE 0)
         + 2 * insert(bits \div 2, other \div 2)

\* KSignalSet::remove: bits &= !other
RECURSIVE remove(_, _)
remove(bits, other) ==
    IF bits = 0 THEN 0
    ELSE (IF bits % 2 = 1 /\ other % 2 = 0 THEN 1 ELSE 0)
         + 2 * remove(bits \div 2, other \div 2)

\* KSignalAction of a fresh process
KSignalActionDefault == [handler |-> 0, flags |-> 0, restorer |-> 0]

\* UserCheck::check_ptr / UserCheckMut::check_ptr_mut: Ok for a mapped
\* address with the right permission, EFAULT otherwise
check_ptr(kind) == kind = "ok"

\* ------------------------------------------------------------------------
\* Inputs of the syscalls
\* ------------------------------------------------------------------------
SigNums == {0, SIGINT, SIGKILL, SIGUSR1, SIGSTOP, 256 + SIGINT}

\* signals whose disposition the model keeps
TableSignals == {SIGINT, SIGKILL, SIGUSR1, SIGSTOP}

\* two actions with a restorer, one without
ActionInputs ==
    {[handler |-> 4096, flags |-> SA_RESTORER, restorer |-> 4160],
     [handler |-> 8192, flags |-> SA_RESTORER, restorer |-> 4160],
     [handler |-> 4096, flags |-> 0, restorer |-> 0]}

\* a user pointer to a KSignalAction: null, unmapped, or mapped with the
\* action it holds
ActPtrs ==
    {[kind |-> k, val |-> KSignalActionDefault] : k \in {"null", "bad"}}
    \cup {[kind |-> "ok", val |-> a] : a \in ActionInputs}

\* a user pointer to a KSignalSet
SetPtrs ==
    {[kind |-> k, val |-> 0] : k \in {"null", "bad"}}
    \cup {[kind |-> "ok", val |-> m] : m \in 0 .. MaxSet}

\* a user pointer the kernel writes through
OutPtrs == {"null", "bad", "ok"}

HowInputs == 0 .. 3

SizeInputs == {SIGSET_SIZE_BYTES, SIGSET_SIZE_BYTES + 1}

\* ------------------------------------------------------------------------
\* hart/mod.rs: the thread and process of a hart
\* ------------------------------------------------------------------------
\* Hart::curr_thread (unwraps Hart::thread)
curr_thread(h) == local_hart(h).thread

\* Hart::curr_process
curr_process(h) == ProcOf(curr_thread(h))

\* ------------------------------------------------------------------------
\* syscall/signal.rs
\* ------------------------------------------------------------------------

\* signal == Signal::SIGKILL || signal == Signal::SIGSTOP
IsKillOrStop(signal) == signal = SIGKILL \/ signal = SIGSTOP

\* act_ptr.flags.contains(SignalActionFlags::SA_RESTORER)
AnyFlags(action) == TRUE

HasRestorer(action) == contains(action.flags, SA_RESTORER)

\* old_act_ptr.clone_from(inner.signal_handlers.action(signal))
ReadHandlerOnly(handlers, signal) ==
    [KSignalActionDefault EXCEPT !.handler = handlers[signal].handler]

ReadAction(handlers, signal) == handlers[signal]

\* inner.signal_handlers.action_mut(signal).clone_from(&act_ptr)
WriteAction(handlers, signal, action) ==
    [handlers EXCEPT ![signal] = action]

\* sys_rt_sigaction on the handlers of the calling process: the return
\* value, the handlers afterwards, what was written through old_act, and
\* whether the kernel hit the todo!()
sigactionWriteUnchecked(handlers, signum, act, old_act) ==
    LET signal == SignalTryFrom(AsU8(signum))
        out == IF old_act = "null" THEN << >> ELSE <<ReadAction(handlers, signal)>>
    IN  IF signal = 0
            THEN [ret |-> Err(EINVAL), handlers |-> handlers, out |-> << >>, panic |-> FALSE]
        ELSE IF IsKillOrStop(signal)
            THEN [ret |-> Err(EINVAL), handlers |-> handlers, out |-> << >>, panic |-> FALSE]
        ELSE IF old_act # "null" /\ ~check_ptr(old_act)
            THEN [ret |-> Err(EFAULT), handlers |-> handlers, out |-> << >>, panic |-> FALSE]
        ELSE IF act.kind = "null"
            THEN [ret |-> Ok(0), handlers |-> handlers, out |-> out, panic |-> FALSE]
        ELSE IF ~check_ptr(act.kind)
            THEN [ret |-> Err(EFAULT), handlers |-> WriteAction(handlers, signal, act.val),
                  out |-> out, panic |-> FALSE]
        ELSE IF ~HasRestorer(act.val)
            THEN [ret |-> Ok(0), handlers |-> handlers, out |-> out, panic |-> TRUE]
        ELSE [ret |-> Ok(0), handlers |-> WriteAction(handlers, signal, act.val),
              out |-> out, panic |-> FALSE]

sigaction(handlers, signum, act, old_act) ==
    LET signal == SignalTryFrom(AsU8(signum))
        out == IF old_act = "null" THEN << >> ELSE <<ReadAction(handlers, signal)>>
    IN  IF signal = 0
            THEN [ret |-> Err(EINVAL), handlers |-> handlers, out |-> << >>, panic |-> FALSE]
        ELSE IF IsKillOrStop(signal)
            THEN [ret |-> Err(EINVAL), handlers |-> handlers, out |-> << >>, panic |-> FALSE]
        ELSE IF old_act # "null" /\ ~check_ptr(old_act)
            THEN [ret |-> Err(EFAULT), handlers |-> handlers, out |-> << >>, panic |-> FALSE]
        ELSE IF act.kind = "null"
            THEN [ret |-> Ok(0), handlers |-> handlers, out |-> out, panic |-> FALSE]
        ELSE IF ~check_ptr(act.kind)
            THEN [ret |-> Err(EFAULT), handlers |-> handlers, out |-> out, panic |-> FALSE]
        ELSE IF ~HasRestorer(act.val)
            THEN [ret |-> Ok(0), handlers |-> handlers, out |-> out, panic |-> TRUE]
        ELSE [ret |-> Ok(0), handlers |-> WriteAction(handlers, signal, act.val),
              out |-> out, panic |-> FALSE]

\* History: installed[p][s] is the action that the latest successful
\* sys_rt_sigaction(s, act, _) of process p passed for the installable signal
\* s; it is forgotten (<< >>) when the disposition of s is written otherwise.
Record(inst, p, signum, act, r) ==
    [inst EXCEPT ![p] = [s \in DOMAIN inst[p] |->
        IF s = signum /\ act.kind = "ok" /\ r.ret = Ok(0) /\ ~r.panic
            THEN <<act.val>>
        ELSE IF r.handlers[s] # signal_handlers[p][s] THEN << >>
        ELSE inst[p][s]]]

\* a thread running on hart h calls sys_rt_sigaction(signum, act, old_act)
sys_rt_sigaction(h, signum, act, old_act) ==
    /\ ~panicked
    /\ curr_thread(h) # None
    /\ LET p == curr_process(h)
           r == sigaction(signal_handlers[p], signum, act, old_act)
       IN  /\ signal_handlers' = [signal_handlers EXCEPT ![p] = r.handlers]
           /\ panicked' = r.panic
           /\ installed' = Record(installed, p, signum, act, r)
           /\ last' = [op |-> "sigaction", hart |-> h,
                       args |-> [signum |-> signum, act |-> act, old_act |-> old_act],
                       ret |-> r.ret, out |-> r.out, pre |-> signal_mask[curr_thread(h)]]
    /\ UNCHANGED signal_mask
    /\ UNCHANGED HARTS
    /\ UNCHANGED bootVars
    /\ UNCHANGED thrVars

\* set_size > SIGSET_SIZE_BYTES
SizeFarTooLarge(set_size) == set_size > SIGSET_SIZE_BYTES + 1

SizeTooLarge(set_size) == set_size > SIGSET_SIZE_BYTES

\* match how { SIG_BLOCK => insert, SIG_UNBLOCK => remove, SIG_SETMASK => assign }
ApplyInsertOnUnblock(mask, how, set) ==
    CASE how = "SIG_BLOCK" -> insert(mask, set)
      [] how = "SIG_UNBLOCK" -> insert(mask, set)
      [] how = "SIG_SETMASK" -> set

ApplyInsertOnSetmask(mask, how, set) ==
    CASE how = "SIG_BLOCK" -> insert(mask, set)
      [] how = "SIG_UNBLOCK" -> remove(mask, set)
      [] how = "SIG_SETMASK" -> insert(mask, set)

Apply(mask, how, set) ==
    CASE how = "SIG_BLOCK" -> insert(mask, set)
      [] how = "SIG_UNBLOCK" -> remove(mask, set)
      [] how = "SIG_SETMASK" -> set

\* sys_rt_sigprocmask on the mask of the calling thread: the return value,
\* the mask afterwards and what was written through old_set
sigprocmaskHowAfterSet(mask, how, set, old_set, set_size) ==
    LET how_ == SigprocmaskHowTryFrom(how)
        out == IF old_set = "null" THEN << >> ELSE <<mask>>
    IN  IF SizeTooLarge(set_size)
            THEN [ret |-> Err(EINVAL), mask |-> mask, out |-> << >>]
        ELSE IF old_set # "null" /\ ~check_ptr(old_set)
            THEN [ret |-> Err(EFAULT), mask |-> mask, out |-> << >>]
        ELSE IF set.kind = "null"
            THEN [ret |-> Ok(0), mask |-> mask, out |-> out]
        ELSE IF how_ = ""
            THEN [ret |-> Err(EINVAL), mask |-> mask, out |-> out]
        ELSE IF ~check_ptr(set.kind)
            THEN [ret |-> Err(EFAULT), mask |-> mask, out |-> out]
        ELSE [ret |-> Ok(0), mask |-> Apply(mask, how_, set.val), out |-> out]

sigprocmaskOldAfterNew(mask, how, set, old_set, set_size) ==
    LET how_ == SigprocmaskHowTryFrom(how)
        out == IF old_set = "null" THEN << >> ELSE <<mask>>
    IN  IF SizeTooLarge(set_size)
            THEN [ret |-> Err(EINVAL), mask |-> mask, out |-> << >>]
        ELSE IF old_set # "null" /\ ~check_ptr(old_set)
            THEN [ret |-> Err(EFAULT), mask |-> mask, out |-> << >>]
        ELSE IF how_ = ""
            THEN [ret |-> Err(EINVAL), mask |-> mask, out |-> out]
        ELSE IF set.kind = "null"
            THEN [ret |-> Ok(0), mask |-> mask, out |-> out]
        ELSE IF ~check_ptr(set.kind)
            THEN [ret |-> Err(EFAULT), mask |-> mask, out |-> out]
        ELSE [ret |-> Ok(0), mask |-> Apply(mask, how_, set.val),
              out |-> IF old_set = "null" THEN << >> ELSE <<Apply(mask, how_, set.val)>>]

sigprocmask(mask, how, set, old_set, set_size) ==
    LET how_ == SigprocmaskHowTryFrom(how)
        out == IF old_set = "null" THEN << >> ELSE <<mask>>
    IN  IF SizeTooLarge(set_size)
            THEN [ret |-> Err(EINVAL), mask |-> mask, out |-> << >>]
        ELSE IF old_set # "null" /\ ~check_ptr(old_set)
            THEN [ret |-> Err(EFAULT), mask |-> mask, out |-> << >>]
        ELSE IF how_ = ""
            THEN [ret |-> Err(EINVAL), mask |-> mask, out |-> out]
        ELSE IF set.kind = "null"
            THEN [ret |-> Ok(0), mask |-> mask, out |-> out]
        ELSE IF ~check_ptr(set.kind)
            THEN [ret |-> Err(EFAULT), mask |-> mask, out |-> out]
        ELSE [ret |-> Ok(0), mask |-> Apply(mask, how_, set.val), out |-> out]

\* History: what the previous syscall was, when it was a sys_rt_sigprocmask
\* of the same hart that `last` still holds
Before(h) ==
    IF last.op = "sigprocmask" /\ last.hart = h
        THEN [op |-> "sigprocmask", how |-> last.args.how, set |-> last.args.set,
              ret |-> last.ret, pre |-> last.pre]
        ELSE NoCall

\* thread.lock_inner_with(|inner| inner.signal_mask ...): the masks of the
\* threads after thread t has updated its own
StoreMaskProcessWide(masks, t, mask) ==
    [u \in DOMAIN masks |-> IF ProcOf(u) = ProcOf(t) THEN mask ELSE masks[u]]

StoreMask(masks, t, mask) == [masks EXCEPT ![t] = mask]

\* a thread running on hart h calls sys_rt_sigprocmask(how, set, old_set, set_size)
sys_rt_sigprocmask(h, how, set, old_set, set_size) ==
    /\ ~panicked
    /\ curr_thread(h) # None
    /\ LET t == curr_thread(h)
           r == sigprocmask(signal_mask[t], how, set, old_set, set_size)
       IN  /\ signal_mask' = StoreMask(signal_mask, t, r.mask)
           /\ last' = [op |-> "sigprocmask", hart |-> h,
                       args |-> [how |-> how, set |-> set, old_set |-> old_set,
                                 set_size |-> set_size],
                       ret |-> r.ret, out |-> r.out, pre |-> signal_mask[t],
                       before |-> Before(h)]
    /\ UNCHANGED <<signal_handlers, panicked, installed>>
    /\ UNCHANGED HARTS
    /\ UNCHANGED bootVars
    /\ UNCHANGED thrVars

\* the syscall dispatcher hands the result of the last syscall back to the
\* calling thread
SyscallReturn ==
    /\ ~panicked
    /\ last # NoCall
    /\ last' = NoCall
    /\ UNCHANGED <<signal_handlers, signal_mask, panicked, installed>>
    /\ UNCHANGED HARTS
    /\ UNCHANGED bootVars
    /\ UNCHANGED thrVars

\* ------------------------------------------------------------------------
\* thread/mod.rs: the inner state of a thread
\* ------------------------------------------------------------------------
\* ThreadStatus: Ready, Running and one further scheduling state
ThreadStatuses == {"Ready", "Running", "Blocked"}

\* stack pointers of a trap context: one outside the mapped user memory
\* and one inside it
UnmappedSp == 0

MappedSp == 4096

\* user program counters of a trap context
PcInputs == {65536, 65540}

\* TrapContext, reduced to the fields pc and sp
TrapContexts == [sp : {UnmappedSp, MappedSp}, pc : PcInputs]

\* the trap context a thread is created with
EntryTrapContext == [sp |-> MappedSp, pc |-> 65536]

\* Thread::new: ThreadInner { exit_code: 0, thread_status: Ready, trap_context }
ThreadNew(trap_context_) ==
    [exit_code |-> 0, thread_status |-> "Ready", trap_context |-> trap_context_]

\* the state once every hart has completed bring-up (hart 0 led it); thread
\* t runs on hart t - 1 and stays there, the syscalls do not suspend
SigInit ==
    /\ pc = [h \in Harts |-> "kernel_loop"]
    /\ branch = [h \in Harts |-> IF h = 0 THEN "leader" ELSE "follower"]
    /\ INIF_HART = FALSE
    /\ INIT_FINISHED = TRUE
    /\ HARTS = [i \in Harts |->
                  [hart_id |-> i, thread |-> IF i + 1 \in Threads THEN i + 1 ELSE None]]
    /\ tp = [h \in Harts |-> h]
    /\ memory_inited = TRUE
    /\ kernel_space_active = [h \in Harts |-> TRUE]
    /\ sum = [h \in Harts |-> TRUE]
    /\ signal_handlers = [p \in Procs |-> [s \in TableSignals |-> KSignalActionDefault]]
    /\ signal_mask = [t \in Threads |-> 0]
    /\ installed = [p \in Procs |-> [s \in TableSignals |-> << >>]]
    /\ last = NoCall
    /\ panicked = FALSE
    /\ trap_context = [t \in Threads |-> ThreadNew(EntryTrapContext).trap_context]
    /\ thread_status = [t \in Threads |-> "Running"]
    /\ exit_code = [t \in Threads |-> ThreadNew(EntryTrapContext).exit_code]
    /\ inner_lock = [t \in Threads |-> None]
    /\ proc_exit = [p \in Procs |-> << >>]
    /\ memory_set = {}
    /\ task = [h \in Harts |-> Idle]

\* syscalls of all threads, one at a time, each returned before the next
SigNext ==
    \/ \E h \in Harts, signum \in SigNums, act \in ActPtrs, old_act \in OutPtrs :
          last = NoCall /\ sys_rt_sigaction(h, signum, act, old_act)
    \/ \E h \in Harts, how \in HowInputs, set \in SetPtrs, old_set \in OutPtrs,
          set_size \in SizeInputs :
          last = NoCall /\ sys_rt_sigprocmask(h, how, set, old_set, set_size)
    \/ SyscallReturn

SigSpec == SigInit /\ [][SigNext]_vars

\* the thread of hart 0 calls sys_rt_sigprocmask(how, set, NULL, 8) again
\* and again; `last` keeps the previous call
SeqNext ==
    \E how \in HowInputs, set \in SetPtrs :
        sys_rt_sigprocmask(0, how, set, "null", SIGSET_SIZE_BYTES)

SeqSpec == SigInit /\ [][SeqNext]_vars

\* ------------------------------------------------------------------------
\* syscall/signal.rs: sys_rt_sigreturn
\* ------------------------------------------------------------------------
\* errno::BREAK
BREAK == "BREAK"

\* the exit code of a process whose signal frame cannot be read
SigreturnExitCode == -10

\* SignalContext { old_mask, old_trap_context }: what user memory may hold
\* at the saved stack pointer
SignalContexts == [old_mask : 0 .. MaxSet, old_trap_context : TrapContexts]

\* UserCheck::new(sp as *mut SignalContext).check_ptr() succeeds
SpValid(sp) == sp = MappedSp

\* exit_process(&thread.process, code)
exit_process(exits, p, code) == [exits EXCEPT ![p] = <<code>>]

\* sys_rt_sigreturn on the inner state of the calling thread, user_ptr
\* being the SignalContext at the saved stack pointer: the return value,
\* the exit code handed to exit_process if any, and the mask and the trap
\* context afterwards
sigreturnMaskOnly(mask, trap_context_, user_ptr) ==
    IF ~SpValid(trap_context_.sp)
        THEN [ret |-> Err(BREAK), exit |-> <<SigreturnExitCode>>,
              mask |-> mask, trap_context |-> trap_context_]
        ELSE [ret |-> Ok(0), exit |-> << >>,
              mask |-> user_ptr.old_mask, trap_context |-> trap_context_]

sigreturnRestoreUnchecked(mask, trap_context_, user_ptr) ==
    IF ~SpValid(trap_context_.sp)
        THEN [ret |-> Err(BREAK), exit |-> <<SigreturnExitCode>>,
              mask |-> user_ptr.old_mask,
              trap_context |-> user_ptr.old_trap_context]
        ELSE [ret |-> Ok(0), exit |-> << >>,
              mask |-> user_ptr.old_mask,
              trap_context |-> user_ptr.old_trap_context]

sigreturn(mask, trap_context_, user_ptr) ==
    IF ~SpValid(trap_context_.sp)
        THEN [ret |-> Err(BREAK), exit |-> <<SigreturnExitCode>>,
              mask |-> mask, trap_context |-> trap_context_]
        ELSE [ret |-> Ok(0), exit |-> << >>,
              mask |-> user_ptr.old_mask,
              trap_context |-> user_ptr.old_trap_context]

\* a thread running on hart h calls sys_rt_sigreturn() while user memory
\* holds user_ptr at its saved stack pointer (when that is mapped)
sys_rt_sigreturn(h, user_ptr) ==
    /\ ~panicked
    /\ curr_thread(h) # None
    /\ proc_exit[curr_process(h)] = << >>
    /\ LET t == curr_thread(h)
           p == curr_process(h)
           r == sigreturn(signal_mask[t], trap_context[t], user_ptr)
       IN  /\ signal_mask' = [signal_mask EXCEPT ![t] = r.mask]
           /\ trap_context' = [trap_context EXCEPT ![t] = r.trap_context]
           /\ proc_exit' = IF r.exit = << >> THEN proc_exit
                                             ELSE exit_process(proc_exit, p, r.exit[1])
           /\ last' = [op |-> "sigreturn", hart |-> h, args |-> [user_ptr |-> user_ptr],
                       ret |-> r.ret, pre |-> signal_mask[t],
                       pre_trap_context |-> trap_context[t]]
    /\ UNCHANGED <<signal_handlers, panicked, installed>>
    /\ UNCHANGED <<thread_status, exit_code, inner_lock, memory_set, task>>
    /\ UNCHANGED HARTS
    /\ UNCHANGED bootVars

\* the thread of hart h runs in user mode and traps into the kernel: the
\* trap saves its registers through Hart::trap_context()
UserTrap(h, trap_context_) ==
    /\ ~panicked
    /\ curr_thread(h) # None
    /\ proc_exit[curr_process(h)] = << >>
    /\ trap_context' = [trap_context EXCEPT ![curr_thread(h)] = trap_context_]
    /\ UNCHANGED <<signal_handlers, signal_mask, last, installed, panicked>>
    /\ UNCHANGED <<thread_status, exit_code, inner_lock, proc_exit, memory_set, task>>
    /\ UNCHANGED HARTS
    /\ UNCHANGED bootVars

\* the threads trap with any user registers and call sys_rt_sigreturn with
\* any frame on their stacks, one call at a time
RetNext ==
    \/ \E h \in Harts, trap_context_ \in TrapContexts :
          last = NoCall /\ UserTrap(h, trap_context_)
    \/ \E h \in Harts, user_ptr \in SignalContexts :
          last = NoCall /\ sys_rt_sigreturn(h, user_ptr)
    \/ SyscallReturn

RetSpec == SigInit /\ [][RetNext]_vars

\* ------------------------------------------------------------------------
\* thread/mod.rs: user stacks
\* ------------------------------------------------------------------------
\* largest thread id a stack is allocated for
MaxTid == 6

Tids == 0 .. MaxTid

\* defines::config; LOW_ADDRESS_END is page aligned and scaled down so that
\* every address fits the integers of the model checker
PAGE_SIZE == 4096

USER_STACK_SIZE == 8192

LOW_ADDRESS_END == 1073737728

\* VirtAddr::vpn_floor, VirtAddr::vpn_ceil
vpn_floor(addr) == addr \div PAGE_SIZE

vpn_ceil(addr) == (addr + PAGE_SIZE - 1) \div PAGE_SIZE

\* Thread::user_stack_high_addr
user_stack_high_addr_no_guard(tid) == LOW_ADDRESS_END - tid * USER_STACK_SIZE

user_stack_high_addr(tid) == LOW_ADDRESS_END - tid * (USER_STACK_SIZE + PAGE_SIZE)

\* Thread::user_stack_low_addr
user_stack_low_addr(tid) == user_stack_high_addr(tid) - USER_STACK_SIZE

\* MemorySet::insert_framed_area(start_vpn, end_vpn, perm): the area covers
\* the pages start_vpn .. end_vpn - 1
insert_framed_area(areas, start_vpn, end_vpn, perm) ==
    areas \cup {[start_vpn |-> start_vpn, end_vpn |-> end_vpn, perm |-> perm]}

\* MemorySet::remove_area_with_start_vpn(start_vpn)
remove_area_with_start_vpn(areas, start_vpn) ==
    {a \in areas : a.start_vpn # start_vpn}

\* Thread::alloc_user_stack of the thread with id tid, which has no stack
alloc_user_stack(tid) ==
    /\ \A a \in memory_set : a.start_vpn # vpn_floor(user_stack_low_addr(tid))
    /\ LET ustack_low_addr == user_stack_low_addr(tid)
           ustack_high_addr == ustack_low_addr + USER_STACK_SIZE
       IN  /\ memory_set' = insert_framed_area(memory_set, vpn_floor(ustack_low_addr),
                                               vpn_ceil(ustack_high_addr), "RWU")
           /\ last' = [op |-> "alloc_user_stack", tid |-> tid, ret |-> ustack_high_addr]
    /\ UNCHANGED <<signal_handlers, signal_mask, installed, panicked>>
    /\ UNCHANGED <<trap_context, thread_status, exit_code, inner_lock, proc_exit, task>>
    /\ UNCHANGED HARTS
    /\ UNCHANGED bootVars

\* Thread::dealloc_user_stack of the thread with id tid, which has a stack
dealloc_user_stack(tid) ==
    /\ \E a \in memory_set : a.start_vpn = vpn_floor(user_stack_low_addr(tid))
    /\ memory_set' = remove_area_with_start_vpn(memory_set,
                                                vpn_floor(user_stack_low_addr(tid)))
    /\ last' = [op |-> "dealloc_user_stack", tid |-> tid, ret |-> 0]
    /\ UNCHANGED <<signal_handlers, signal_mask, installed, panicked>>
    /\ UNCHANGED <<trap_context, thread_status, exit_code, inner_lock, proc_exit, task>>
    /\ UNCHANGED HARTS
    /\ UNCHANGED bootVars

\* threads with ids 0 .. MaxTid get and give back their user stacks in any
\* order
StackNext ==
    \/ \E tid \in Tids : alloc_user_stack(tid)
    \/ \E tid \in Tids : dealloc_user_stack(tid)

StackSpec == SigInit /\ [][StackNext]_vars

\* ------------------------------------------------------------------------
\* thread/mod.rs: Thread::new and Thread::yield_now, step by step
\* ------------------------------------------------------------------------
\* the thread whose life is followed
YieldThread == 1

\* exit codes a running thread may be given
ExitCodeInputs == {0, 3}

\* self.inner.lock() can return: spin::Mutex is free
CanLockAlways(locks, t) == TRUE

CanLock(locks, t) == locks[t] = None

\* self.inner.lock() returns the guard to the task of thread `holder`
MutexLock(locks, t, holder) == [locks EXCEPT ![t] = holder]

\* the MutexGuard is dropped (a temporary at the end of its statement, a
\* closure argument when lock_inner returns)
KeepGuard(locks, t) == locks

DropGuard(locks, t) == [locks EXCEPT ![t] = None]

\* the thread exists and no hart runs it: its task is suspended
Suspended(t) ==
    /\ thread_status[t] # "none"
    /\ \A h \in Harts : HARTS[h].thread # t

\* Thread::new(process, tid, trap_context)
ThreadCreate(t, trap_context_) ==
    /\ thread_status[t] = "none"
    /\ thread_status' = [thread_status EXCEPT ![t] = ThreadNew(trap_context_).thread_status]
    /\ exit_code' = [exit_code EXCEPT ![t] = ThreadNew(trap_context_).exit_code]
    /\ trap_context' = [trap_context EXCEPT ![t] = ThreadNew(trap_context_).trap_context]
    /\ inner_lock' = [inner_lock EXCEPT ![t] = None]
    /\ UNCHANGED <<signal_handlers, signal_mask, last, installed, panicked>>
    /\ UNCHANGED <<proc_exit, memory_set, task>>
    /\ UNCHANGED HARTS
    /\ UNCHANGED bootVars

\* the executor polls the suspended task of thread t on the idle hart h:
\* Hart::replace_thread
Resume(h, t) ==
    /\ Suspended(t)
    /\ HARTS[tp[h]].thread = None
    /\ task[h] = Idle
    /\ HARTS' = [HARTS EXCEPT ![tp[h]].thread = t]
    /\ UNCHANGED sigVars
    /\ UNCHANGED bootVars

\* the kernel updates the status and the exit code of the thread hart h
\* runs, inside one lock_inner closure
SetInner(h, status, code) ==
    /\ task[h] = Idle
    /\ curr_thread(h) # None
    /\ CanLock(inner_lock, curr_thread(h))
    /\ thread_status' = [thread_status EXCEPT ![curr_thread(h)] = status]
    /\ exit_code' = [exit_code EXCEPT ![curr_thread(h)] = code]
    /\ UNCHANGED <<signal_handlers, signal_mask, last, installed, panicked>>
    /\ UNCHANGED <<trap_context, inner_lock, proc_exit, memory_set, task>>
    /\ UNCHANGED HARTS
    /\ UNCHANGED bootVars

\* yield_now, `self.inner.lock()`: the thread hart h runs takes its own lock
YieldLock(h) ==
    /\ task[h] = Idle
    /\ curr_thread(h) # None
    /\ CanLock(inner_lock, curr_thread(h))
    /\ inner_lock' = MutexLock(inner_lock, curr_thread(h), curr_thread(h))
    /\ task' = [task EXCEPT ![h] =
                  [op |-> "yield_now", pc |-> "store",
                   pre |-> [thread_status |-> thread_status[curr_thread(h)],
                            exit_code |-> exit_code[curr_thread(h)],
                            trap_context |-> trap_context[curr_thread(h)]]]]
    /\ UNCHANGED <<signal_handlers, signal_mask, last, installed, panicked>>
    /\ UNCHANGED <<trap_context, thread_status, exit_code, proc_exit, memory_set>>
    /\ UNCHANGED HARTS
    /\ UNCHANGED bootVars

\* yield_now, `.thread_status = ThreadStatus::Ready;`: the store, and the
\* guard dropped at the end of the statement
YieldStore(h) ==
    /\ task[h].op = "yield_now"
    /\ task[h].pc = "store"
    /\ thread_status' = [thread_status EXCEPT ![curr_thread(h)] = "Ready"]
    /\ inner_lock' = DropGuard(inner_lock, curr_thread(h))
    /\ task' = [task EXCEPT ![h].pc = "await"]
    /\ UNCHANGED <<signal_handlers, signal_mask, last, installed, panicked>>
    /\ UNCHANGED <<trap_context, exit_code, proc_exit, memory_set>>
    /\ UNCHANGED HARTS
    /\ UNCHANGED bootVars

\* yield_now, `executor::yield_now().await`: the task is suspended and the
\* hart goes on without the thread
YieldAwait(h) ==
    /\ task[h].op = "yield_now"
    /\ task[h].pc = "await"
    /\ HARTS' = [HARTS EXCEPT ![tp[h]].thread = None]
    /\ task' = [task EXCEPT ![h] = Idle]
    /\ UNCHANGED <<signal_handlers, signal_mask, last, installed, panicked>>
    /\ UNCHANGED <<trap_context, thread_status, exit_code, inner_lock, proc_exit,
                   memory_set>>
    /\ UNCHANGED bootVars

\* bring-up is complete, no thread has been constructed yet
ThreadInit ==
    /\ pc = [h \in Harts |-> "kernel_loop"]
    /\ branch = [h \in Harts |-> IF h = 0 THEN "leader" ELSE "follower"]
    /\ INIF_HART = FALSE
    /\ INIT_FINISHED = TRUE
    /\ HARTS = [i \in Harts |-> [hart_id |-> i, thread |-> None]]
    /\ tp = [h \in Harts |-> h]
    /\ memory_inited = TRUE
    /\ kernel_space_active = [h \in Harts |-> TRUE]
    /\ sum = [h \in Harts |-> TRUE]
    /\ signal_handlers = [p \in Procs |-> [s \in TableSignals |-> KSignalActionDefault]]
    /\ signal_mask = [t \in Threads |-> 0]
    /\ installed = [p \in Procs |-> [s \in TableSignals |-> << >>]]
    /\ last = NoCall
    /\ panicked = FALSE
    /\ trap_context = [t \in Threads |-> [sp |-> 0, pc |-> 0]]
    /\ thread_status = [t \in Threads |-> "none"]
    /\ exit_code = [t \in Threads |-> None]
    /\ inner_lock = [t \in Threads |-> None]
    /\ proc_exit = [p \in Procs |-> << >>]
    /\ memory_set = {}
    /\ task = [h \in Harts |-> Idle]

\* one thread is constructed, resumed on any hart, given any status, exit
\* code and user registers while it runs, and yields
ThreadNext ==
    \/ \E trap_context_ \in TrapContexts : ThreadCreate(YieldThread, trap_context_)
    \/ \E h \in Harts : Resume(h, YieldThread)
    \/ \E h \in Harts, status \in ThreadStatuses, code \in ExitCodeInputs :
          SetInner(h, status, code)
    \/ \E h \in Harts, trap_context_ \in TrapContexts :
          task[h] = Idle /\ UserTrap(h, trap_context_)
    \/ \E h \in Harts : YieldLock(h)
    \/ \E h \in Harts : YieldStore(h)
    \/ \E h \in Harts : YieldAwait(h)

ThreadSpec == ThreadInit /\ [][ThreadNext]_vars

\* ------------------------------------------------------------------------
\* thread/mod.rs: Thread::lock_inner, step by step
\* ------------------------------------------------------------------------
\* the thread whose inner state the closures work on
LockedThread == 1

\* the closures: the restoring one of sys_rt_sigreturn, which only the
\* thread itself runs, and one that reads the mask and the trap context
Closures == {"restore", "observe"}

\* what a closure that has read nothing yet has seen
NoSnapshot == [signal_mask |-> 0, trap_context |-> [sp |-> 0, pc |-> 0]]

\* the mask and the trap context of a thread
Snapshot(t) == [signal_mask |-> signal_mask[t], trap_context |-> trap_context[t]]

\* lock_inner(f), `self.inner.lock()`: the thread hart h runs takes the
\* lock of LockedThread; f is entered with the guard
LockInner(h, f, user_ptr) ==
    /\ task[h] = Idle
    /\ curr_thread(h) # None
    /\ f = "restore" => curr_thread(h) = LockedThread
    /\ CanLock(inner_lock, LockedThread)
    /\ inner_lock' = MutexLock(inner_lock, LockedThread, curr_thread(h))
    /\ task' = [task EXCEPT ![h] =
                  [op |-> "lock_inner", f |-> f, pc |-> 1, user_ptr |-> user_ptr,
                   at_lock |-> Snapshot(LockedThread), seen |-> NoSnapshot]]
    /\ UNCHANGED <<signal_handlers, signal_mask, last, installed, panicked>>
    /\ UNCHANGED <<trap_context, thread_status, exit_code, proc_exit, memory_set>>
    /\ UNCHANGED HARTS
    /\ UNCHANGED bootVars

\* the first statement of the closure: `inner.signal_mask = user_ptr.old_mask`
\* or the read of inner.signal_mask
ClosureMask(h) ==
    /\ task[h].op = "lock_inner"
    /\ task[h].pc = 1
    /\ IF task[h].f = "restore"
          THEN /\ signal_mask' = [signal_mask EXCEPT
                                    ![LockedThread] = task[h].user_ptr.old_mask]
               /\ task' = [task EXCEPT ![h].pc = 2]
          ELSE /\ signal_mask' = signal_mask
               /\ task' = [task EXCEPT ![h].pc = 2,
                                       ![h].seen.signal_mask = signal_mask[LockedThread]]
    /\ UNCHANGED <<signal_handlers, last, installed, panicked>>
    /\ UNCHANGED <<trap_context, thread_status, exit_code, inner_lock, proc_exit,
                   memory_set>>
    /\ UNCHANGED HARTS
    /\ UNCHANGED bootVars

\* the second statement of the closure:
\* `inner.trap_context = user_ptr.old_trap_context.clone()` or the read of
\* inner.trap_context
ClosureTrapContext(h) ==
    /\ task[h].op = "lock_inner"
    /\ task[h].pc = 2
    /\ IF task[h].f = "restore"
          THEN /\ trap_context' = [trap_context EXCEPT
                                     ![LockedThread] = task[h].user_ptr.old_trap_context]
               /\ task' = [task EXCEPT ![h].pc = 3]
          ELSE /\ trap_context' = trap_context
               /\ task' = [task EXCEPT ![h].pc = 3,
                                       ![h].seen.trap_context = trap_context[LockedThread]]
    /\ UNCHANGED <<signal_handlers, signal_mask, last, installed, panicked>>
    /\ UNCHANGED <<thread_status, exit_code, inner_lock, proc_exit, memory_set>>
    /\ UNCHANGED HARTS
    /\ UNCHANGED bootVars

\* lock_inner returns: the guard is dropped
LockInnerReturn(h) ==
    /\ task[h].op = "lock_inner"
    /\ task[h].pc = 3
    /\ inner_lock' = DropGuard(inner_lock, LockedThread)
    /\ task' = [task EXCEPT ![h] = Idle]
    /\ UNCHANGED <<signal_handlers, signal_mask, last, installed, panicked>>
    /\ UNCHANGED <<trap_context, thread_status, exit_code, proc_exit, memory_set>>
    /\ UNCHANGED HARTS
    /\ UNCHANGED bootVars

\* the threads run closures on the inner state of LockedThread from their
\* harts, in any interleaving of their steps
LockNext ==
    \/ \E h \in Harts, f \in Closures, user_ptr \in SignalContexts :
          (f = "observe" => user_ptr.old_mask = 0
                            /\ user_ptr.old_trap_context = EntryTrapContext)
          /\ LockInner(h, f, user_ptr)
    \/ \E h \in Harts : ClosureMask(h)
    \/ \E h \in Harts : ClosureTrapContext(h)
    \/ \E h \in Harts : LockInnerReturn(h)

LockSpec == SigInit /\ [][LockNext]_vars

\* ------------------------------------------------------------------------
\* syscall/signal.rs: sys_rt_sigaction, one lock section at a time
\* ------------------------------------------------------------------------
\* the harts whose threads call sys_rt_sigaction concurrently; their
\* threads belong to the same process
ConcHarts == {0, 1}

ConcSignums == {SIGINT, SIGKILL}

\* signum is decoded and checked; nothing is locked yet
SaEnter(h, signum, act, old_act) ==
    /\ ~panicked
    /\ task[h] = Idle
    /\ curr_thread(h) # None
    /\ LET signal == SignalTryFrom(AsU8(signum))
           rejected == signal = 0 \/ IsKillOrStop(signal)
       IN  task' = [task EXCEPT ![h] =
                      [op |-> "sigaction", pc |-> IF rejected THEN "done" ELSE "old",
                       signal |-> signal, act |-> act, old_act |-> old_act,
                       ret |-> IF rejected THEN Err(EINVAL) ELSE Ok(0),
                       out |-> << >>, replaced |-> << >>]]
    /\ UNCHANGED <<signal_handlers, signal_mask, last, installed, panicked>>
    /\ UNCHANGED <<trap_context, thread_status, exit_code, inner_lock, proc_exit,
                   memory_set>>
    /\ UNCHANGED HARTS
    /\ UNCHANGED bootVars

\* `if let Some(old_act) = old_act.as_mut()`: the pointer check, then the
\* lock section that copies the current action to old_act
SaOld(h) ==
    /\ ~panicked
    /\ task[h].op = "sigaction"
    /\ task[h].pc = "old"
    /\ task' = [task EXCEPT ![h] =
          IF task[h].old_act = "null"
              THEN [task[h] EXCEPT !.pc = "new"]
          ELSE IF ~check_ptr(task[h].old_act)
              THEN [task[h] EXCEPT !.pc = "done", !.ret = Err(EFAULT)]
          ELSE [task[h] EXCEPT !.pc = "new",
                               !.out = <<ReadAction(signal_handlers[curr_process(h)],
                                                    task[h].signal)>>]]
    /\ UNCHANGED <<signal_handlers, signal_mask, last, installed, panicked>>
    /\ UNCHANGED <<trap_context, thread_status, exit_code, inner_lock, proc_exit,
                   memory_set>>
    /\ UNCHANGED HARTS
    /\ UNCHANGED bootVars

\* `if let Some(act) = act.as_ref()`: the pointer check, the SA_RESTORER
\* test, then the lock section that stores the new action
SaNew(h) ==
    /\ ~panicked
    /\ task[h].op = "sigaction"
    /\ task[h].pc = "new"
    /\ LET p == curr_process(h)
           act == task[h].act
           stores == check_ptr(act.kind) /\ HasRestorer(act.val)
       IN  /\ panicked' = (check_ptr(act.kind) /\ ~HasRestorer(act.val))
           /\ signal_handlers' =
                 IF stores
                     THEN [signal_handlers EXCEPT
                             ![p] = WriteAction(signal_handlers[p], task[h].signal, act.val)]
                     ELSE signal_handlers
           /\ task' = [task EXCEPT ![h] =
                 IF act.kind = "null"
                     THEN [task[h] EXCEPT !.pc = "done"]
                 ELSE IF ~check_ptr(act.kind)
                     THEN [task[h] EXCEPT !.pc = "done", !.ret = Err(EFAULT)]
                 ELSE IF ~HasRestorer(act.val)
                     THEN [task[h] EXCEPT !.pc = "todo"]
                 ELSE [task[h] EXCEPT !.pc = "done",
                                      !.replaced = <<signal_handlers[p][task[h].signal]>>]]
    /\ UNCHANGED <<signal_mask, last, installed>>
    /\ UNCHANGED <<trap_context, thread_status, exit_code, inner_lock, proc_exit,
                   memory_set>>
    /\ UNCHANGED HARTS
    /\ UNCHANGED bootVars

\* the call returns to the thread
SaReturn(h) ==
    /\ ~panicked
    /\ task[h].op = "sigaction"
    /\ task[h].pc = "done"
    /\ task' = [task EXCEPT ![h] = Idle]
    /\ UNCHANGED <<signal_handlers, signal_mask, last, installed, panicked>>
    /\ UNCHANGED <<trap_context, thread_status, exit_code, inner_lock, proc_exit,
                   memory_set>>
    /\ UNCHANGED HARTS
    /\ UNCHANGED bootVars

\* two threads of one process call sys_rt_sigaction from their harts; the
\* lock sections of the calls interleave in any order
ConcNext ==
    \/ \E h \in ConcHarts, signum \in ConcSignums, act \in ActPtrs, old_act \in OutPtrs :
          SaEnter(h, signum, act, old_act)
    \/ \E h \in ConcHarts : SaOld(h)
    \/ \E h \in ConcHarts : SaNew(h)
    \/ \E h \in ConcHarts : SaReturn(h)

ConcSpec == SigInit /\ [][ConcNext]_vars

\* ------------------------------------------------------------------------
\* Bring-up properties
\* ------------------------------------------------------------------------

Leaders == {h \in Harts : branch[h] = "leader"}
Followers == {h \in Harts : branch[h] = "follower"}
LeaderPcs == {"clear_bss", "memory_init", "activate", "set_local_hart", "publish"}
FollowerPcs == {"spin", "f_set_local_hart", "f_activate"}

\* the leader has finished memory::init, activated the kernel space and
\* installed its own handle
LeaderDone ==
    /\ memory_inited
    /\ \E l \in Leaders : kernel_space_active[l] /\ tp[l] # None

\* C1: whatever harts enter and however they interleave, exactly one hart
\* wins the compare-and-swap on INIF_HART and runs the leader branch, all
\* other harts that passed the CAS run the follower branch, and INIF_HART
\* never becomes true again.
C1_LeaderUnique ==
    /\ [](/\ Cardinality(Leaders) <= 1
          /\ (\E h \in Harts : branch[h] # "none") => (Cardinality(Leaders) = 1)
          /\ (\E h \in Harts : branch[h] # "none") <=> (~INIF_HART)
          /\ \A h \in Harts :
                /\ (pc[h] \in LeaderPcs) => (h \in Leaders)
                /\ (pc[h] \in FollowerPcs) => (h \in Followers)
                /\ (pc[h] \in {"set_sum", "kernel_loop"})
                      => (h \in Leaders \cup Followers))
    /\ [][~INIF_HART => ~INIF_HART']_vars

\* every hart has passed the CAS: one leader, the others followers
C1_Witness ==
    /\ \A h \in Harts : branch[h] # "none"
    /\ Cardinality(Leaders) = 1
    /\ Cardinality(Followers) = HartNum - 1

\* C2: no follower installs its handle or activates the kernel address
\* space before the leader has finished memory initialisation, activated
\* the kernel space and installed its own handle; INIT_FINISHED is true
\* only after those three steps and never goes back to false.
C2_BarrierOrdering ==
    /\ [](/\ \A h \in Harts \ Leaders :
                (tp[h] # None \/ kernel_space_active[h]) => LeaderDone
          /\ INIT_FINISHED => LeaderDone)
    /\ [][INIT_FINISHED => INIT_FINISHED']_vars

\* a follower has installed its handle and activated the kernel space
C2_Witness ==
    \E h \in Followers : tp[h] # None /\ kernel_space_active[h] /\ INIT_FINISHED

\* C3: under weak fairness of every hart's steps, every hart that entered
\* __hart_entry reaches the kernel loop with INIT_FINISHED true, its handle
\* installed and the kernel address space active.
C3_BringUpLiveness ==
    \A h \in Harts :
        (pc[h] # "off") ~> (/\ pc[h] = "kernel_loop"
                            /\ INIT_FINISHED
                            /\ tp[h] # None
                            /\ kernel_space_active[h])

\* every hart, the followers included, is in the kernel loop
C3_Witness ==
    /\ \A h \in Harts : pc[h] = "kernel_loop" /\ tp[h] # None /\ kernel_space_active[h]
    /\ Followers # {}
    /\ INIT_FINISHED

\* C4: a hart h that completed bring-up has tp pointing at slot h, whose
\* hart_id is h; distinct harts hold distinct slots; set_local_hart(h)
\* changes no slot other than slot h.
C4_HandleIdentity ==
    /\ [](\A h \in Harts : pc[h] \in {"set_sum", "kernel_loop"} =>
              /\ tp[h] = h
              /\ local_hart(h).hart_id = h
              /\ \A g \in Harts \ {h} :
                    pc[g] \in {"set_sum", "kernel_loop"} => tp[g] # tp[h])
    /\ [][\A h \in Harts :
            (pc[h] \in {"set_local_hart", "f_set_local_hart"} /\ pc'[h] # pc[h])
                => \A i \in Harts \ {h} : HARTS'[i] = HARTS[i]]_vars

\* two harts with non-zero ids completed bring-up
C4_Witness ==
    \E h, g \in Harts :
        /\ h # g /\ h # 0 /\ g # 0
        /\ pc[h] = "kernel_loop" /\ pc[g] = "kernel_loop"
        /\ HARTS[h].hart_id = h /\ HARTS[g].hart_id = g

\* ------------------------------------------------------------------------
\* Signal syscall properties
\* ------------------------------------------------------------------------

\* the step is the sys_rt_sigaction call that last' records
SigactionCall ==
    /\ last'.op = "sigaction"
    /\ sys_rt_sigaction(last'.hart, last'.args.signum, last'.args.act, last'.args.old_act)

\* the step is the sys_rt_sigprocmask call that last' records
SigprocmaskCall ==
    /\ last'.op = "sigprocmask"
    /\ sys_rt_sigprocmask(last'.hart, last'.args.how, last'.args.set,
                          last'.args.old_set, last'.args.set_size)

\* signal numbers of supported signals, and those user code may install
Supported(signum) == signum \in 1 .. SIGNAL_MAX
Installable(signum) == Supported(signum) /\ signum # SIGKILL /\ signum # SIGSTOP

\* the signals of a signal set
Bits(m) == {i \in 0 .. 7 : (m \div (2 ^ i)) % 2 = 1}

\* C5: sys_rt_sigaction with signum SIGKILL, SIGSTOP or any number that is
\* not a supported signal returns EINVAL, whatever act and old_act are, and
\* leaves the disposition table unchanged.
C5_UninstallableRejected ==
    [][(SigactionCall /\ ~Installable(last'.args.signum))
          => (/\ last'.ret = Err(EINVAL)
              /\ signal_handlers' = signal_handlers)]_vars

\* C6: once sys_rt_sigaction(S, A, _) has succeeded for an installable S and
\* an action A with SA_RESTORER, a later sys_rt_sigaction(S, NULL, out) of the
\* process, with no other write to the disposition of S in between, returns 0
\* and stores A in out; both calls leave every other signal's disposition as
\* it was.
C6_RoundTrip ==
    [][SigactionCall =>
        LET a == last'.args
            p == curr_process(last'.hart)
            isRead == Installable(a.signum) /\ a.act.kind = "null" /\ a.old_act = "ok"
            isWrite == /\ Installable(a.signum) /\ a.act.kind = "ok"
                       /\ contains(a.act.val.flags, SA_RESTORER)
                       /\ a.old_act = "null" /\ last'.ret = Ok(0)
        IN  /\ (isRead /\ installed[p][a.signum] # << >>)
                  => (last'.ret = Ok(0) /\ last'.out = installed[p][a.signum])
            /\ isWrite => installed'[p][a.signum] = <<a.act.val>>
            /\ (isRead \/ isWrite)
                  => \A s \in TableSignals \ {a.signum} :
                        signal_handlers'[p][s] = signal_handlers[p][s]]_vars

\* a read of SIGINT returned the action installed earlier, while SIGUSR1 has
\* another installed action
C6_Witness ==
    /\ last.op = "sigaction"
    /\ last.args.signum = SIGINT /\ last.args.act.kind = "null" /\ last.args.old_act = "ok"
    /\ last.ret = Ok(0)
    /\ last.out # << >>
    /\ last.out = installed[1][SIGINT]
    /\ last.out[1] \in ActionInputs
    /\ installed[1][SIGUSR1] # << >>
    /\ installed[1][SIGUSR1] # installed[1][SIGINT]

\* C7: a sys_rt_sigaction call whose new action lacks SA_RESTORER is rejected
\* or stopped at the stub and leaves the table unchanged; every disposition
\* of the table other than the initial one has SA_RESTORER set.
C7_NoRestorerNeverStored ==
    /\ [](\A p \in DOMAIN signal_handlers : \A s \in DOMAIN signal_handlers[p] :
            \/ signal_handlers[p][s] = KSignalActionDefault
            \/ contains(signal_handlers[p][s].flags, SA_RESTORER))
    /\ [][(/\ SigactionCall
           /\ last'.args.act.kind = "ok"
           /\ ~contains(last'.args.act.val.flags, SA_RESTORER))
            => (/\ signal_handlers' = signal_handlers
                /\ panicked' \/ last'.ret.err # "")]_vars

\* a call without SA_RESTORER on an installable signal reached the stub,
\* after another action had been installed
C7_Witness ==
    /\ panicked
    /\ last.op = "sigaction"
    /\ Installable(last.args.signum)
    /\ last.args.act.kind = "ok"
    /\ ~contains(last.args.act.val.flags, SA_RESTORER)
    /\ signal_handlers[1][last.args.signum] \in ActionInputs

\* C8: a successful sys_rt_sigprocmask leaves the caller's mask M as
\* M union S for SIG_BLOCK, M minus S for SIG_UNBLOCK, S for SIG_SETMASK, and
\* as M when set is NULL.
C8_MaskUpdate ==
    [][(SigprocmaskCall /\ last'.ret = Ok(0)) =>
        LET a == last'.args
            t == curr_thread(last'.hart)
            M == signal_mask[t]
            N == signal_mask'[t]
            S == a.set.val
        IN  /\ a.set.kind = "null" => N = M
            /\ (a.set.kind = "ok" /\ a.how = 0) => Bits(N) = Bits(M) \cup Bits(S)
            /\ (a.set.kind = "ok" /\ a.how = 1) => Bits(N) = Bits(M) \ Bits(S)
            /\ (a.set.kind = "ok" /\ a.how = 2) => N = S]_vars

\* an unblock removed some but not all of the blocked signals
C8_Witness ==
    /\ last.op = "sigprocmask"
    /\ last.ret = Ok(0)
    /\ last.args.how = 1 /\ last.args.set.kind = "ok"
    /\ Bits(last.pre) \cap Bits(last.args.set.val) # {}
    /\ Bits(signal_mask[curr_thread(last.hart)]) = Bits(last.pre) \ Bits(last.args.set.val)
    /\ signal_mask[curr_thread(last.hart)] # 0

\* the previous call of the thread blocked S successfully and the last call
\* unblocked the same S successfully
BlockThenUnblock ==
    /\ last.op = "sigprocmask"
    /\ last.ret = Ok(0)
    /\ last.args.how = 1 /\ last.args.set.kind = "ok"
    /\ last.before.op = "sigprocmask"
    /\ last.before.ret = Ok(0)
    /\ last.before.how = 0
    /\ last.before.set = last.args.set

\* C9: sys_rt_sigprocmask(SIG_BLOCK, S) followed by
\* sys_rt_sigprocmask(SIG_UNBLOCK, S) on a thread whose mask was M leaves
\* the mask M minus S, which is M when M and S are disjoint.
C9_BlockUnblockRoundTrip ==
    BlockThenUnblock =>
        LET M == last.before.pre
            S == last.args.set.val
            N == signal_mask[curr_thread(last.hart)]
        IN  /\ Bits(N) = Bits(M) \ Bits(S)
            /\ (Bits(M) \cap Bits(S) = {}) => N = M

\* block then unblock of a non-empty S disjoint from a non-empty M
C9_Witness ==
    /\ BlockThenUnblock
    /\ last.args.set.val # 0
    /\ last.before.pre # 0
    /\ Bits(last.before.pre) \cap Bits(last.args.set.val) = {}
    /\ signal_mask[curr_thread(last.hart)] = last.before.pre

\* C10: sys_rt_sigprocmask with set_size above SIGSET_SIZE_BYTES returns
\* EINVAL for every how and every pointer, changes no mask and writes nothing
\* through old_set.
C10_OversizedRejected ==
    [][(SigprocmaskCall /\ last'.args.set_size > SIGSET_SIZE_BYTES)
          => (/\ last'.ret = Err(EINVAL)
              /\ signal_mask' = signal_mask
              /\ last'.out = << >>)]_vars

\* an oversized call with a valid how, a valid new set that would change the
\* mask and a valid old_set was rejected
C10_Witness ==
    /\ last.op = "sigprocmask"
    /\ last.args.set_size > SIGSET_SIZE_BYTES
    /\ last.args.how = 2
    /\ last.args.set.kind = "ok"
    /\ last.args.old_set = "ok"
    /\ last.args.set.val # signal_mask[curr_thread(last.hart)]
    /\ last.ret = Err(EINVAL)

\* ------------------------------------------------------------------------
\* Error paths of the signal syscalls
\* ------------------------------------------------------------------------
\* the how argument is none of SIG_BLOCK, SIG_UNBLOCK, SIG_SETMASK
HowInvalid(how) == SigprocmaskHowTryFrom(how) = ""

\* C11 as stated: every sys_rt_sigprocmask whose how is outside the three
\* recognised values returns EINVAL and leaves the mask of the calling
\* thread unchanged, whatever the other arguments are.
C11_InvalidHowAlwaysEinval ==
    [][(SigprocmaskCall /\ HowInvalid(last'.args.how))
          => (/\ last'.ret = Err(EINVAL)
              /\ signal_mask' = signal_mask)]_vars

\* C11, amended: a sys_rt_sigprocmask whose how is outside the three
\* recognised values leaves every signal mask unchanged; it returns EINVAL,
\* with a null, a valid or an invalid new-mask pointer alike, unless the
\* old_set pointer is non-null and invalid, and then it returns EFAULT (the
\* old_set pointer is validated before how is looked at).
C11_InvalidHowRejected ==
    [][(SigprocmaskCall /\ HowInvalid(last'.args.how))
          => (/\ signal_mask' = signal_mask
              /\ last'.ret \in {Err(EINVAL), Err(EFAULT)}
              /\ (last'.ret = Err(EFAULT)) <=>
                    (/\ ~SizeTooLarge(last'.args.set_size)
                     /\ last'.args.old_set = "bad"))]_vars

\* an invalid how with a null new-mask pointer and an acceptable size was
\* rejected with EINVAL after old_set had been filled in
C11_Witness ==
    /\ last.op = "sigprocmask"
    /\ HowInvalid(last.args.how)
    /\ last.args.set.kind = "null"
    /\ last.args.old_set = "ok"
    /\ last.args.set_size = SIGSET_SIZE_BYTES
    /\ last.ret = Err(EINVAL)
    /\ last.out = <<last.pre>>

\* C14: whenever sys_rt_sigaction or sys_rt_sigprocmask returns EFAULT, for
\* an invalid old-value-out pointer or for a valid or null one followed by
\* an invalid new-value pointer, the disposition table of every process and
\* the signal mask of every thread are what they were before the call.
C14_FaultLeavesKernelState ==
    [][((SigactionCall \/ SigprocmaskCall) /\ last'.ret = Err(EFAULT))
          => (/\ signal_handlers' = signal_handlers
              /\ signal_mask' = signal_mask)]_vars

\* sys_rt_sigaction filled old_act in and then failed on an invalid act,
\* while the disposition of the signal was an installed, non-default one
C14_Witness ==
    /\ last.op = "sigaction"
    /\ last.ret = Err(EFAULT)
    /\ last.args.act.kind = "bad"
    /\ last.args.old_act = "ok"
    /\ last.out # << >>
    /\ last.out[1] # KSignalActionDefault
    /\ Installable(last.args.signum)
    /\ signal_handlers[curr_process(last.hart)][last.args.signum] = last.out[1]

\* ------------------------------------------------------------------------
\* Frame and ordering of the signal syscalls
\* ------------------------------------------------------------------------
\* C17: sys_rt_sigprocmask called by thread T changes nothing but T's own
\* signal mask: the mask of every other thread, the disposition tables, and
\* T's trap context, status and exit code are what they were before.
C17_MaskFrame ==
    [][SigprocmaskCall =>
        LET t == curr_thread(last'.hart)
        IN  /\ \A u \in Threads \ {t} : signal_mask'[u] = signal_mask[u]
            /\ signal_handlers' = signal_handlers
            /\ trap_context'[t] = trap_context[t]
            /\ thread_status'[t] = thread_status[t]
            /\ exit_code'[t] = exit_code[t]]_vars

\* a call changed the mask of its thread while another thread of the same
\* process holds a different, non-empty mask
C17_Witness ==
    /\ last.op = "sigprocmask"
    /\ last.ret = Ok(0)
    /\ signal_mask[curr_thread(last.hart)] # last.pre
    /\ \E u \in Threads \ {curr_thread(last.hart)} :
          /\ ProcOf(u) = curr_process(last.hart)
          /\ signal_mask[u] # 0
          /\ signal_mask[u] # signal_mask[curr_thread(last.hart)]

\* C19: one sys_rt_sigaction(S, act, old_act) with both pointers valid (S
\* installable, act carrying SA_RESTORER) returns 0, writes to old_act the
\* disposition S had before the call, and the table then holds act; one
\* sys_rt_sigprocmask(how, set, old_set, size) with both pointers valid, a
\* recognised how and an acceptable size returns 0, writes to old_set the
\* mask the thread had before the call, and the mask is then the updated one.
C19_OldBeforeNew ==
    /\ [][(/\ SigactionCall
            /\ Installable(last'.args.signum)
            /\ last'.args.act.kind = "ok"
            /\ contains(last'.args.act.val.flags, SA_RESTORER)
            /\ last'.args.old_act = "ok")
           => LET p == curr_process(last'.hart)
                  S == last'.args.signum
              IN  /\ last'.ret = Ok(0)
                  /\ last'.out = <<signal_handlers[p][S]>>
                  /\ signal_handlers'[p][S] = last'.args.act.val]_vars
    /\ [][(/\ SigprocmaskCall
            /\ ~HowInvalid(last'.args.how)
            /\ last'.args.set.kind = "ok"
            /\ last'.args.old_set = "ok"
            /\ last'.args.set_size <= SIGSET_SIZE_BYTES)
           => LET t == curr_thread(last'.hart)
              IN  /\ last'.ret = Ok(0)
                  /\ last'.out = <<signal_mask[t]>>
                  /\ last'.args.how = 2 => signal_mask'[t] = last'.args.set.val]_vars

\* a sys_rt_sigaction replaced an installed action by a different one and
\* handed the replaced one back
C19_Witness ==
    /\ last.op = "sigaction"
    /\ last.ret = Ok(0)
    /\ Installable(last.args.signum)
    /\ last.args.act.kind = "ok"
    /\ last.args.old_act = "ok"
    /\ last.out # << >>
    /\ last.out[1] # KSignalActionDefault
    /\ last.out[1] # last.args.act.val
    /\ signal_handlers[curr_process(last.hart)][last.args.signum] = last.args.act.val

\* ------------------------------------------------------------------------
\* sys_rt_sigreturn
\* ------------------------------------------------------------------------
\* the step is the sys_rt_sigreturn call that last' records
SigreturnCall ==
    /\ last'.op = "sigreturn"
    /\ sys_rt_sigreturn(last'.hart, last'.args.user_ptr)

\* C12: sys_rt_sigreturn called with a readable SignalContext at the saved
\* stack pointer returns 0 and leaves the signal mask of the thread equal to
\* the context's old_mask and its trap context equal, pc and sp included,
\* to the context's old_trap_context, whatever both were before the call.
C12_SigreturnRestores ==
    [][(SigreturnCall /\ SpValid(trap_context[curr_thread(last'.hart)].sp))
          => LET t == curr_thread(last'.hart)
                 c == last'.args.user_ptr
             IN  /\ last'.ret = Ok(0)
                 /\ signal_mask'[t] = c.old_mask
                 /\ trap_context'[t].pc = c.old_trap_context.pc
                 /\ trap_context'[t].sp = c.old_trap_context.sp
                 /\ trap_context'[t] = c.old_trap_context
                 /\ proc_exit' = proc_exit]_vars

\* a sys_rt_sigreturn replaced a mask and a trap context (pc and sp) by
\* different ones taken from the frame
C12_Witness ==
    /\ last.op = "sigreturn"
    /\ last.ret = Ok(0)
    /\ last.pre # last.args.user_ptr.old_mask
    /\ last.pre_trap_context.pc # last.args.user_ptr.old_trap_context.pc
    /\ last.pre_trap_context.sp # last.args.user_ptr.old_trap_context.sp
    /\ signal_mask[curr_thread(last.hart)] = last.args.user_ptr.old_mask
    /\ trap_context[curr_thread(last.hart)] = last.args.user_ptr.old_trap_context

\* C13: sys_rt_sigreturn called with a saved stack pointer that fails the
\* user-pointer validation exits the owning process with code -10, returns
\* the BREAK error and restores nothing: the signal mask and the trap
\* context of the thread are what they were before the call.
C13_SigreturnBadFrame ==
    [][(SigreturnCall /\ ~SpValid(trap_context[curr_thread(last'.hart)].sp))
          => LET t == curr_thread(last'.hart)
             IN  /\ last'.ret = Err(BREAK)
                 /\ proc_exit'[curr_process(last'.hart)] = <<-10>>
                 /\ signal_mask'[t] = signal_mask[t]
                 /\ trap_context'[t] = trap_context[t]]_vars

\* a sys_rt_sigreturn on an unmapped stack pointer exited the process and
\* kept a mask and a trap context that differ from the frame offered
C13_Witness ==
    /\ last.op = "sigreturn"
    /\ last.ret = Err(BREAK)
    /\ proc_exit[curr_process(last.hart)] = <<-10>>
    /\ signal_mask[curr_thread(last.hart)] = last.pre
    /\ last.pre # 0
    /\ last.pre # last.args.user_ptr.old_mask
    /\ trap_context[curr_thread(last.hart)] = last.pre_trap_context
    /\ last.pre_trap_context # last.args.user_ptr.old_trap_context

\* ------------------------------------------------------------------------
\* User stacks
\* ------------------------------------------------------------------------
\* the bytes an area maps are AreaLow(a) .. AreaHigh(a) - 1
AreaLow(a) == a.start_vpn * PAGE_SIZE

AreaHigh(a) == a.end_vpn * PAGE_SIZE

\* C15: with high(t) = LOW_ADDRESS_END - t * (USER_STACK_SIZE + PAGE_SIZE)
\* and low(t) = high(t) - USER_STACK_SIZE, for thread ids t1 < t2 the ranges
\* [low(t1), high(t1)) and [low(t2), high(t2)) do not overlap and at least
\* PAGE_SIZE bytes lie between high(t2) and low(t1); every mapped area is
\* exactly [low(t), high(t)) of one thread id, two mapped areas are at least
\* one unmapped page apart, and alloc_user_stack(t) has mapped [low(t),
\* high(t)) and returned high(t).
C15_StacksDisjoint ==
    /\ \A t1, t2 \in Tids :
          t1 < t2 =>
            /\ user_stack_low_addr(t1) = user_stack_high_addr(t1) - USER_STACK_SIZE
            /\ user_stack_high_addr(t2) <= user_stack_low_addr(t1)
            /\ user_stack_low_addr(t1) - user_stack_high_addr(t2) >= PAGE_SIZE
            /\ user_stack_low_addr(t2) >= 0
    /\ \A a \in memory_set :
          \E t \in Tids : /\ AreaLow(a) = user_stack_low_addr(t)
                          /\ AreaHigh(a) = user_stack_high_addr(t)
    /\ \A a, b \in memory_set :
          a # b => \/ AreaHigh(a) + PAGE_SIZE <= AreaLow(b)
                   \/ AreaHigh(b) + PAGE_SIZE <= AreaLow(a)
    /\ last.op = "alloc_user_stack" =>
          /\ last.ret = user_stack_high_addr(last.tid)
          /\ \E a \in memory_set : /\ AreaLow(a) = user_stack_low_addr(last.tid)
                                    /\ AreaHigh(a) = user_stack_high_addr(last.tid)
                                    /\ a.perm = "RWU"

\* the stacks of two neighbouring thread ids are mapped, the second one
\* allocated last
C15_Witness ==
    /\ last.op = "alloc_user_stack"
    /\ last.tid > 0
    /\ \E a, b \in memory_set :
          /\ AreaHigh(a) = user_stack_high_addr(last.tid)
          /\ AreaLow(b) = user_stack_low_addr(last.tid - 1)
          /\ AreaLow(b) - AreaHigh(a) = PAGE_SIZE

\* ------------------------------------------------------------------------
\* Thread::new and Thread::yield_now
\* ------------------------------------------------------------------------
\* C18: Thread::new leaves the thread with status Ready and exit code 0;
\* whatever the status was before yield_now, when yield_now is at its await
\* the status is Ready, the exit code and the trap context are the ones
\* from before the yield and the thread's task does not hold the inner
\* lock; nor does it hold it while it is suspended.
C18_YieldEndsReady ==
    /\ [][\A t \in Threads :
            (thread_status[t] = "none" /\ thread_status'[t] # "none")
                => (thread_status'[t] = "Ready" /\ exit_code'[t] = 0)]_vars
    /\ [](\A h \in Harts :
            (task[h].op = "yield_now" /\ task[h].pc = "await")
                => (/\ thread_status[curr_thread(h)] = "Ready"
                    /\ exit_code[curr_thread(h)] = task[h].pre.exit_code
                    /\ trap_context[curr_thread(h)] = task[h].pre.trap_context
                    /\ inner_lock[curr_thread(h)] = None))
    /\ [](\A t \in Threads :
            Suspended(t) => (inner_lock[t] = None /\ thread_status[t] = "Ready"))

\* a thread that was Blocked, with a non-zero exit code, is at the await of
\* yield_now on a hart other than hart 0
C18_Witness ==
    \E h \in Harts \ {0} :
        /\ task[h].op = "yield_now"
        /\ task[h].pc = "await"
        /\ task[h].pre.thread_status = "Blocked"
        /\ task[h].pre.exit_code # 0
        /\ thread_status[curr_thread(h)] = "Ready"
        /\ exit_code[curr_thread(h)] = task[h].pre.exit_code

\* ------------------------------------------------------------------------
\* Thread::lock_inner
\* ------------------------------------------------------------------------
\* hart h is inside a lock_inner closure
InClosure(h) == task[h].op = "lock_inner"

SwappedBy(h) ==
    /\ task[h].op = "sigaction"
    /\ task[h].pc = "done"
    /\ task[h].ret = Ok(0)
    /\ task[h].act.kind = "ok"
    /\ task[h].old_act = "ok"

\* C20: when two threads of one process call sys_rt_sigaction on the same
\* signal from different harts, each with a new action and an old-action
\* pointer, the table entry is at all times one whole action, the old action
\* each call returns is the one its own new action replaced, and so the two
\* calls never both return a disposition that neither of them installed.
C20_SwapAtomic ==
    /\ \A p \in Procs, sig \in TableSignals :
          signal_handlers[p][sig] \in {KSignalActionDefault} \cup ActionInputs
    /\ \A h \in ConcHarts : SwappedBy(h) => task[h].out = task[h].replaced
    /\ \A h1, h2 \in ConcHarts :
          (/\ h1 # h2
           /\ SwappedBy(h1) /\ SwappedBy(h2)
           /\ task[h1].signal = task[h2].signal
           /\ task[h1].out = task[h2].out)
              => task[h1].out[1] \in {task[h1].act.val, task[h2].act.val}

====
